---- MODULE Spec2Model ----
(***************************************************************************)
(* Model of drone-gcloud-helm: main (main.go) and Plugin (plugin.go).      *)
(*                                                                         *)
(* One run of the process is modelled from the point where envconfig has   *)
(* filled the Plugin structure.  Every external command (gcloud, gsutil,   *)
(* helm, kubectl) and every local I/O call is a step whose outcome is      *)
(* chosen nondeterministically; the argument vector of every command is    *)
(* recorded in `cmds` as it is built by the code.                          *)
(*                                                                         *)
(* Strings are TLA+ strings, concatenated with \o as fmt.Sprintf does;     *)
(* ChartPath is a sequence of one-character strings because               *)
(* strings.Split works on its characters.                                  *)
(***************************************************************************)
EXTENDS Naturals, Integers, Sequences, FiniteSets, TLC

VARIABLES
    input,      \* the Plugin as envconfig.Process filled it (never changes)
    p,          \* main's `var p Plugin`
    pc,         \* position of the process
    attempt,    \* number of the current call of p.Exec (0 before the first)
    i,          \* index of the range loop over p.Actions in Exec (1-based)
    j,          \* index of the range loop over cmds in setupProject (1-based)
    tmpfile,    \* setupProject's local `tmpfile` (its name, "" when unset)
    errs,       \* the error returned by each finished call of p.Exec
    prepErrs,   \* the error returned by each call of preparePlugin
    cmds,       \* every external command run so far, in order
    files,      \* the temporary files on disk, in creation order
    env,        \* value of GOOGLE_APPLICATION_CREDENTIALS ("" when unset)
    clock,      \* seconds spent in time.Sleep
    log,        \* messages written by main through logrus
    status      \* exit status of the process, -1 while it runs

vars == <<input, p, pc, attempt, i, j, tmpfile, errs, prepErrs, cmds, files, env, clock, log, status>>

(***************************************************************************)
(* Bounds of the model.                                                    *)
(***************************************************************************)
MaxActions == 3
MaxPathLen == 3

(***************************************************************************)
(* Constants of the program.                                               *)
(***************************************************************************)
gcloudBin == "/opt/google-cloud-sdk/bin/gcloud"
gsutilBin == "/opt/google-cloud-sdk/bin/gsutil"
kubectlBin == "/opt/google-cloud-sdk/bin/kubectl"
helmBin == "/opt/google-cloud-sdk/bin/helm"

createPkg == "create"
pushPkg == "push"
deployPkg == "deploy"

sleepSeconds == 10

WarnPrepare == "Prepare plugin failed. Waiting 10 seconds and retrying!"
WarnExec == "Plugin execution failed. Waiting 10 seconds and retrying!"
FatalPrepare == "failed to prepare plugin"
FatalExec == "failed to execute plugin"

Nil == "nil"
ErrUnknownAction == "unknown action"
ErrExit == "exit status 1"
ErrIO == "i/o error"

(***************************************************************************)
(* String helpers.                                                         *)
(***************************************************************************)
RECURSIVE Str(_)
Str(cs) == IF cs = <<>> THEN "" ELSE Head(cs) \o Str(Tail(cs))

RECURSIVE Split(_, _)
Split(s, sep) ==
    IF \A k \in 1..Len(s) : s[k] # sep
    THEN <<s>>
    ELSE LET k == CHOOSE n \in 1..Len(s) :
                      s[n] = sep /\ \A m \in 1..(n - 1) : s[m] # sep
         IN  <<SubSeq(s, 1, k - 1)>> \o Split(SubSeq(s, k + 1, Len(s)), sep)

RECURSIVE Join(_, _)
Join(elems, sep) ==
    IF elems = <<>> THEN ""
    ELSE IF Len(elems) = 1 THEN elems[1]
    ELSE elems[1] \o sep \o Join(Tail(elems), sep)

\* A TempFile that gives every file the same name.
TempName_fixed(n) == "/tmp/auth-key.json"

TempName(n) == "/tmp/auth-key.json" \o ToString(n)

(***************************************************************************)
(* preparePlugin: fills the defaults of p and returns nil.                 *)
(***************************************************************************)
\* A preparePlugin that takes the first path segment for the package.
preparePlugin_firstSegment(q) ==
    LET s  == Split(q.ChartPath, "/")
        q1 == IF q.Package = "" THEN [q EXCEPT !.Package = Str(s[1])] ELSE q
        q2 == IF q1.Release = "" THEN [q1 EXCEPT !.Release = q1.Package] ELSE q1
        q3 == IF q2.ChartRepo = "" /\ q2.Bucket # ""
              THEN [q2 EXCEPT !.ChartRepo = "https://" \o q2.Bucket \o ".storage.googleapis.com/"]
              ELSE q2
        q4 == IF q3.Namespace = "" THEN [q3 EXCEPT !.Namespace = "default"] ELSE q3
    IN  [p |-> q4, err |-> Nil]

preparePlugin(q) ==
    LET s  == Split(q.ChartPath, "/")
        q1 == IF q.Package = "" THEN [q EXCEPT !.Package = Str(s[Len(s)])] ELSE q
        q2 == IF q1.Release = "" THEN [q1 EXCEPT !.Release = q1.Package] ELSE q1
        q3 == IF q2.ChartRepo = "" /\ q2.Bucket # ""
              THEN [q2 EXCEPT !.ChartRepo = "https://" \o q2.Bucket \o ".storage.googleapis.com/"]
              ELSE q2
        q4 == IF q3.Namespace = "" THEN [q3 EXCEPT !.Namespace = "default"] ELSE q3
    IN  [p |-> q4, err |-> Nil]

(***************************************************************************)
(* Argument vectors, as the handlers build them.                           *)
(***************************************************************************)
createPackageArgs(q) ==
    <<helmBin, "package", "--version", q.ChartVersion, Str(q.ChartPath)>>

pushPackageArgs(q) ==
    <<gsutilBin, "cp",
      q.Package \o "-" \o q.ChartVersion \o ".tgz",
      "gs://" \o q.Bucket>>

\* deployPackage, line 115: the Values of deployPackage's own copy of p.
deployValues(q) == Append(q.Values, "namespace=" \o q.Namespace)

deployPackageArgs(q) ==
    <<helmBin, "upgrade",
      q.Package,
      q.Package \o "-" \o q.ChartVersion \o ".tgz",
      "--set", Join(deployValues(q), ","),
      "--install",
      "--namespace", q.Namespace>>

\* A deployPackage with a pointer receiver: the caller sees the append.
callerValuesAfterDeploy_pointer(q) == Append(q.Values, "namespace=" \o q.Namespace)

\* deployPackage has a value receiver: the caller's Values are what they were.
callerValuesAfterDeploy(q) == q.Values

setupProjectCmds(q, keyFile) ==
    << <<gcloudBin, "auth", "activate-service-account", "--key-file=" \o keyFile>>,
       <<gcloudBin, "config", "set", "project", q.Project>>,
       <<gcloudBin, "container", "clusters", "get-credentials", q.Cluster, "--zone", q.Zone>> >>

helmInitArgs == <<helmBin, "init", "--client-only">>

kubeConfigArgs == <<kubectlBin, "config", "view">>

\* One finished cmd.Run(): the attempt of Exec it belongs to, its argument
\* vector, whether trace(cmd) was called and the process's stdout/stderr were
\* attached, and whether it returned nil.
Ran(att, argv, traced, ok) ==
    [att |-> att, argv |-> argv, traced |-> traced, stdio |-> traced, ok |-> ok]

\* A switch that knows the second stage as "publish".
switchAction_publish(a) ==
    CASE a = createPkg -> createPkg
      [] a = "publish" -> pushPkg
      [] a = deployPkg -> deployPkg
      [] OTHER         -> "default"

\* The switch of Exec's loop.
switchAction(a) ==
    CASE a = createPkg -> createPkg
      [] a = pushPkg   -> pushPkg
      [] a = deployPkg -> deployPkg
      [] OTHER         -> "default"

(***************************************************************************)
(* main, lines 42-47: what follows the return of the att-th p.Exec().      *)
(***************************************************************************)
\* A main that calls Exec again after every failure.
mainAfterExec_retryAgain(att, err) ==
    IF err = Nil
    THEN [next |-> "exit", status |-> 0, sleep |-> 0, logs |-> <<>>]
    ELSE IF att <= 2
         THEN [next |-> "Exec", status |-> -1, sleep |-> 0, logs |-> <<WarnExec>>]
         ELSE [next |-> "fatal", status |-> 1, sleep |-> 0, logs |-> <<FatalExec>>]

mainAfterExec(att, err) ==
    IF err = Nil
    THEN [next |-> "exit", status |-> 0, sleep |-> 0, logs |-> <<>>]
    ELSE IF att = 1
         THEN [next |-> "Exec", status |-> -1, sleep |-> 0, logs |-> <<WarnExec>>]
         ELSE [next |-> "fatal", status |-> 1, sleep |-> 0, logs |-> <<FatalExec>>]

\* A retry that resumes Exec at the step that failed.
Return_resume(err) ==
    LET r == mainAfterExec(attempt, err)
    IN  /\ errs' = Append(errs, err)
        /\ log' = log \o r.logs
        /\ clock' = clock + r.sleep
        /\ status' = r.status
        /\ IF r.next = "Exec"
           THEN /\ pc' = pc /\ attempt' = attempt + 1
                /\ i' = i /\ j' = j /\ tmpfile' = tmpfile
           ELSE /\ pc' = r.next /\ attempt' = attempt
                /\ i' = 0 /\ j' = 0 /\ tmpfile' = ""

\* Exec returns err to main.
Return(err) ==
    LET r == mainAfterExec(attempt, err)
    IN  /\ errs' = Append(errs, err)
        /\ log' = log \o r.logs
        /\ clock' = clock + r.sleep
        /\ status' = r.status
        /\ IF r.next = "Exec"
           THEN pc' = "TempFile" /\ attempt' = attempt + 1
           ELSE pc' = r.next /\ attempt' = attempt
        /\ i' = 0 /\ j' = 0 /\ tmpfile' = ""

\* Exec goes on to its next step.
Continue(npc, ni, nj, ntmp) ==
    /\ pc' = npc /\ i' = ni /\ j' = nj /\ tmpfile' = ntmp
    /\ UNCHANGED <<input, attempt, errs, log, clock, status>>

(***************************************************************************)
(* Initial states: the Plugin structures envconfig can deliver.            *)
(***************************************************************************)
ActionIds == {createPkg, pushPkg, deployPkg, "publish"}

SeqsUpTo(S, n) == UNION {[1..k -> S] : k \in 0..n}

ScenarioPath == <<"/", "c", "h", "a", "r", "t", "s", "/", "m", "y", "a", "p", "p">>

\* What the environment sets besides DEBUG and ACTIONS ("" and <<>> when unset).
Setting(cp, pk, rl, ns, repo, bucket, vs) ==
    [ AuthKey      |-> "KEY",
      Zone         |-> "zone-a",
      Cluster      |-> "cl",
      Project      |-> "proj",
      Namespace    |-> ns,
      ChartRepo    |-> repo,
      Bucket       |-> bucket,
      ChartPath    |-> cp,
      ChartVersion |-> "1.2.3",
      Package      |-> pk,
      Release      |-> rl,
      Values       |-> vs ]

Settings ==
    { Setting(ScenarioPath, "", "", "", "", "my-bucket", <<>>),
      Setting(ScenarioPath, "", "", "", "", "my-bucket", <<"a=1", "b=2">>),
      Setting(ScenarioPath, "pk", "rl", "ns", "https://charts/", "my-bucket", <<"k=v">>),
      Setting(<<"a", "/">>, "", "rl", "", "", "my-bucket", <<>>),
      Setting(<<"b">>, "pk", "", "ns", "", "", <<>>) }

Plugins ==
    { [f \in DOMAIN e \cup {"Debug", "Actions"} |->
          IF f = "Debug" THEN d ELSE IF f = "Actions" THEN as ELSE e[f]] :
      d \in BOOLEAN, as \in SeqsUpTo(ActionIds, MaxActions), e \in Settings }

Init ==
    /\ input \in Plugins
    /\ p = input
    /\ pc = "prepare"
    /\ attempt = 0
    /\ i = 0
    /\ j = 0
    /\ tmpfile = ""
    /\ errs = <<>>
    /\ prepErrs = <<>>
    /\ cmds = <<>>
    /\ files = <<>>
    /\ env = ""
    /\ clock = 0
    /\ log = <<>>
    /\ status = -1

(***************************************************************************)
(* main, lines 34-42: preparePlugin with its retry, then the first Exec.   *)
(***************************************************************************)
MainPrepare ==
    /\ pc = "prepare"
    /\ LET r1 == preparePlugin(p)
           r2 == preparePlugin(r1.p)
       IN  IF r1.err = Nil
           THEN /\ p' = r1.p
                /\ prepErrs' = <<r1.err>>
                /\ pc' = "TempFile" /\ attempt' = 1
                /\ UNCHANGED <<clock, log, status>>
           ELSE /\ p' = r2.p
                /\ prepErrs' = <<r1.err, r2.err>>
                /\ clock' = clock + sleepSeconds
                /\ IF r2.err = Nil
                   THEN /\ pc' = "TempFile" /\ attempt' = 1
                        /\ log' = Append(log, WarnPrepare)
                        /\ status' = status
                   ELSE /\ pc' = "fatal" /\ attempt' = attempt
                        /\ log' = log \o <<WarnPrepare, FatalPrepare>>
                        /\ status' = 1
    /\ UNCHANGED <<input, i, j, tmpfile, errs, cmds, files, env>>

(***************************************************************************)
(* setupProject.                                                           *)
(***************************************************************************)
\* A setupProject that exports the key file as soon as it is created.
TempFile_setenvEarly ==
    /\ pc = "TempFile"
    /\ \E ok \in BOOLEAN :
         IF ok
         THEN LET name == TempName(Len(files) + 1)
              IN  /\ files' = Append(files, [name |-> name, content |-> "", att |-> attempt])
                  /\ env' = name
                  /\ Continue("Write", i, j, name)
         ELSE /\ files' = files
              /\ env' = env
              /\ Return(ErrIO)
    /\ UNCHANGED <<input, p, prepErrs, cmds>>

TempFile ==
    /\ pc = "TempFile"
    /\ \E ok \in BOOLEAN :
         IF ok
         THEN LET name == TempName(Len(files) + 1)
              IN  /\ files' = Append(files, [name |-> name, content |-> "", att |-> attempt])
                  /\ Continue("Write", i, j, name)
         ELSE /\ files' = files
              /\ Return(ErrIO)
    /\ UNCHANGED <<input, p, prepErrs, cmds, env>>

Write ==
    /\ pc = "Write"
    /\ \E ok \in BOOLEAN :
         IF ok
         THEN /\ files' = [files EXCEPT ![Len(files)].content = p.AuthKey]
              /\ Continue("Close", i, j, tmpfile)
         ELSE /\ files' = files
              /\ Return(ErrIO)
    /\ UNCHANGED <<input, p, prepErrs, cmds, env>>

Close ==
    /\ pc = "Close"
    /\ \E ok \in BOOLEAN :
         IF ok THEN Continue("setup", i, 1, tmpfile) ELSE Return(ErrIO)
    /\ UNCHANGED <<input, p, prepErrs, cmds, files, env>>

\* A setupProject that runs its three commands whatever they return.
SetupRun_ignoreErr ==
    /\ pc = "setup"
    /\ \E ok \in BOOLEAN :
         /\ cmds' = Append(cmds, Ran(attempt, setupProjectCmds(p, tmpfile)[j], p.Debug, ok))
         /\ IF j < Len(setupProjectCmds(p, tmpfile))
            THEN Continue("setup", i, j + 1, tmpfile)
            ELSE Continue("Setenv", i, 0, tmpfile)
    /\ UNCHANGED <<input, p, prepErrs, files, env>>

SetupRun ==
    /\ pc = "setup"
    /\ \E ok \in BOOLEAN :
         /\ cmds' = Append(cmds, Ran(attempt, setupProjectCmds(p, tmpfile)[j], p.Debug, ok))
         /\ IF ok
            THEN IF j < Len(setupProjectCmds(p, tmpfile))
                 THEN Continue("setup", i, j + 1, tmpfile)
                 ELSE Continue("Setenv", i, 0, tmpfile)
            ELSE Return(ErrExit)
    /\ UNCHANGED <<input, p, prepErrs, files, env>>

Setenv ==
    /\ pc = "Setenv"
    /\ env' = tmpfile
    /\ Continue("helmInit", i, j, "")
    /\ UNCHANGED <<input, p, prepErrs, cmds, files>>

(***************************************************************************)
(* helmInit.                                                               *)
(***************************************************************************)
\* A helmInit whose error Exec does not look at.
HelmInit_ignoreErr ==
    /\ pc = "helmInit"
    /\ \E ok \in BOOLEAN :
         /\ cmds' = Append(cmds, Ran(attempt, helmInitArgs, p.Debug, ok))
         /\ Continue("loop", 1, j, tmpfile)
    /\ UNCHANGED <<input, p, prepErrs, files, env>>

HelmInit ==
    /\ pc = "helmInit"
    /\ \E ok \in BOOLEAN :
         /\ cmds' = Append(cmds, Ran(attempt, helmInitArgs, p.Debug, ok))
         /\ IF ok THEN Continue("loop", 1, j, tmpfile) ELSE Return(ErrExit)
    /\ UNCHANGED <<input, p, prepErrs, files, env>>

(***************************************************************************)
(* Exec's loop over p.Actions and the three handlers.                      *)
(***************************************************************************)
AtAction(kind) ==
    /\ pc = "loop"
    /\ i <= Len(p.Actions)
    /\ switchAction(p.Actions[i]) = kind

CreatePackage ==
    /\ AtAction(createPkg)
    /\ \E ok \in BOOLEAN :
         /\ cmds' = Append(cmds, Ran(attempt, createPackageArgs(p), p.Debug, ok))
         /\ IF ok THEN Continue("loop", i + 1, j, tmpfile) ELSE Return(ErrExit)
    /\ UNCHANGED <<input, p, prepErrs, files, env>>

\* An Exec that goes on to the next action when pushPackage fails.
PushPackage_continueOnError ==
    /\ AtAction(pushPkg)
    /\ \E ok \in BOOLEAN :
         /\ cmds' = Append(cmds, Ran(attempt, pushPackageArgs(p), p.Debug, ok))
         /\ Continue("loop", i + 1, j, tmpfile)
    /\ UNCHANGED <<input, p, prepErrs, files, env>>

PushPackage ==
    /\ AtAction(pushPkg)
    /\ \E ok \in BOOLEAN :
         /\ cmds' = Append(cmds, Ran(attempt, pushPackageArgs(p), p.Debug, ok))
         /\ IF ok THEN Continue("loop", i + 1, j, tmpfile) ELSE Return(ErrExit)
    /\ UNCHANGED <<input, p, prepErrs, files, env>>

\* A deployPackage that goes on to the upgrade when the dump fails.
DeployKubeConfig_ignoreErr ==
    /\ AtAction(deployPkg)
    /\ p.Debug
    /\ \E ok \in BOOLEAN :
         /\ cmds' = Append(cmds, Ran(attempt, kubeConfigArgs, TRUE, ok))
         /\ Continue("helmUpgrade", i, j, tmpfile)
    /\ UNCHANGED <<input, p, prepErrs, files, env>>

\* deployPackage, lines 109-113: the diagnostic dump of a debug run.
DeployKubeConfig ==
    /\ AtAction(deployPkg)
    /\ p.Debug
    /\ \E ok \in BOOLEAN :
         /\ cmds' = Append(cmds, Ran(attempt, kubeConfigArgs, TRUE, ok))
         /\ IF ok THEN Continue("helmUpgrade", i, j, tmpfile) ELSE Return(ErrExit)
    /\ UNCHANGED <<input, p, prepErrs, files, env>>

\* A deployPackage that may skip the dump of a debug run.
DeployUpgrade_noDump ==
    /\ \/ AtAction(deployPkg)
       \/ pc = "helmUpgrade"
    /\ \E ok \in BOOLEAN :
         /\ cmds' = Append(cmds, Ran(attempt, deployPackageArgs(p), p.Debug, ok))
         /\ IF ok THEN Continue("loop", i + 1, j, tmpfile) ELSE Return(ErrExit)
    /\ p' = [p EXCEPT !.Values = callerValuesAfterDeploy(p)]
    /\ UNCHANGED <<input, prepErrs, files, env>>

\* deployPackage, lines 115-128.
DeployUpgrade ==
    /\ \/ AtAction(deployPkg) /\ ~p.Debug
       \/ pc = "helmUpgrade"
    /\ \E ok \in BOOLEAN :
         /\ cmds' = Append(cmds, Ran(attempt, deployPackageArgs(p), p.Debug, ok))
         /\ IF ok THEN Continue("loop", i + 1, j, tmpfile) ELSE Return(ErrExit)
    /\ p' = [p EXCEPT !.Values = callerValuesAfterDeploy(p)]
    /\ UNCHANGED <<input, prepErrs, files, env>>

\* An Exec that skips an identifier it does not know.
UnknownAction_skip ==
    /\ AtAction("default")
    /\ Continue("loop", i + 1, j, tmpfile)
    /\ UNCHANGED <<input, p, prepErrs, cmds, files, env>>

UnknownAction ==
    /\ AtAction("default")
    /\ Return(ErrUnknownAction)
    /\ UNCHANGED <<input, p, prepErrs, cmds, files, env>>

LoopEnd ==
    /\ pc = "loop"
    /\ i > Len(p.Actions)
    /\ Return(Nil)
    /\ UNCHANGED <<input, p, prepErrs, cmds, files, env>>

Next ==
    \/ MainPrepare
    \/ TempFile
    \/ Write
    \/ Close
    \/ SetupRun
    \/ Setenv
    \/ HelmInit
    \/ CreatePackage
    \/ PushPackage
    \/ DeployKubeConfig
    \/ DeployUpgrade
    \/ UnknownAction
    \/ LoopEnd

Spec == Init /\ [][Next]_vars

(***************************************************************************)
(* Config resolution alone: preparePlugin applied to every chart path of   *)
(* up to MaxPathLen characters, with PACKAGE and RELEASE set or unset.     *)
(***************************************************************************)
ResolvePlugins ==
    { [f \in DOMAIN e \cup {"Debug", "Actions"} |->
          IF f = "Debug" THEN FALSE ELSE IF f = "Actions" THEN <<deployPkg>> ELSE e[f]] :
      e \in { Setting(cp, pk, rl, "", "", "my-bucket", <<>>) :
                 cp \in SeqsUpTo({"/", "a", "b"}, MaxPathLen),
                 pk \in {"", "pk"}, rl \in {"", "rl"} } }

InitResolve ==
    /\ input \in ResolvePlugins
    /\ p = input
    /\ pc = "prepare"
    /\ attempt = 0 /\ i = 0 /\ j = 0 /\ tmpfile = ""
    /\ errs = <<>> /\ prepErrs = <<>> /\ cmds = <<>> /\ files = <<>>
    /\ env = "" /\ clock = 0 /\ log = <<>> /\ status = -1

SpecResolve == InitResolve /\ [][MainPrepare]_vars

TypeOK ==
    /\ pc \in {"prepare", "TempFile", "Write", "Close", "setup", "Setenv",
               "helmInit", "loop", "helmUpgrade", "exit", "fatal"}
    /\ attempt \in 0..2
    /\ status \in {-1, 0, 1}
    /\ i \in 0..(Len(p.Actions) + 1)
    /\ j \in 0..3
    /\ Len(errs) <= 2

(***************************************************************************)
(* Views of the recorded run, used to state the properties.                *)
(***************************************************************************)
Terminated == pc \in {"exit", "fatal"}

\* The commands of the a-th call of Exec, in order.
AttemptCmds(a) == SelectSeq(cmds, LAMBDA c : c.att = a)

IsPackage(c) == c.argv[1] = helmBin /\ c.argv[2] = "package"
IsCopy(c) == c.argv[1] = gsutilBin /\ c.argv[2] = "cp"
IsUpgrade(c) == c.argv[1] = helmBin /\ c.argv[2] = "upgrade"
IsDump(c) == c.argv[1] = kubectlBin
IsInit(c) == c.argv[1] = helmBin /\ c.argv[2] = "init"
IsGcloud(c) == c.argv[1] = gcloudBin

\* A command issued by one of the three action handlers.
IsHandlerCmd(c) == IsPackage(c) \/ IsCopy(c) \/ IsUpgrade(c) \/ IsDump(c)

\* The command that ends a handler: its last command, or the dump that failed.
EndsHandler(c) == IsPackage(c) \/ IsCopy(c) \/ IsUpgrade(c) \/ (IsDump(c) /\ ~c.ok)

\* The action a handler command belongs to.
ActionOf(c) ==
    CASE IsPackage(c) -> createPkg
      [] IsCopy(c)    -> pushPkg
      [] OTHER        -> deployPkg

\* One entry per handler invoked in the a-th call of Exec, in order.
Handled(a) == SelectSeq(AttemptCmds(a), EndsHandler)

\* The a-th call of Exec got through setupProject and helmInit.
InitOK(a) == \E k \in 1..Len(cmds) : cmds[k].att = a /\ IsInit(cmds[k]) /\ cmds[k].ok

\* The a-th call of Exec has returned.
Returned(a) == a <= Len(errs)

\* The a-th call of Exec returned an error from setupProject or helmInit.
SetupFailed(a) == Returned(a) /\ errs[a] # Nil /\ ~InitOK(a)

\* The a-th call of Exec ran every declared action to a successful end.
Completed(a) ==
    /\ InitOK(a)
    /\ Len(Handled(a)) = Len(p.Actions)
    /\ \A k \in 1..Len(p.Actions) :
         Handled(a)[k].ok /\ ActionOf(Handled(a)[k]) = p.Actions[k]

(***************************************************************************)
(* C1: Exec is called at most twice in a run; a failed first call is       *)
(* followed by exactly one more call; the process exits with status 0      *)
(* exactly when some call of Exec completed every declared action, and     *)
(* with status 1 when both calls failed.                                   *)
(***************************************************************************)
C1_ExecRetriedOnce ==
    /\ attempt <= 2
    /\ \A k \in 1..Len(cmds) : cmds[k].att \in 1..2
    /\ Len(errs) <= 2
    /\ (Returned(1) /\ errs[1] # Nil) => attempt = 2
    /\ (Returned(1) /\ errs[1] = Nil) => (attempt = 1 /\ pc = "exit")
    /\ status = 0 <=> pc = "exit"
    /\ status = 1 <=> pc = "fatal"
    /\ Terminated => (status = 0 <=> \E a \in 1..2 : Completed(a))
    /\ pc = "fatal" => (Len(errs) = 2 /\ errs[1] # Nil /\ errs[2] # Nil)
    /\ (Len(errs) = 2 /\ errs[2] # Nil) => pc = "fatal"

\* A handler failed in the first call and the second call completed.
C1_Witness ==
    /\ pc = "exit"
    /\ attempt = 2
    /\ \E k \in 1..Len(cmds) : cmds[k].att = 1 /\ IsHandlerCmd(cmds[k]) /\ ~cmds[k].ok
    /\ Len(p.Actions) >= 2
    /\ Completed(2)

(***************************************************************************)
(* C2: when a credential-provisioning command or the packaging init fails  *)
(* in the first attempt, the retry starts only after the fixed delay of    *)
(* sleepSeconds has been waited, and there is exactly one retry.           *)
(***************************************************************************)
C2_PrepareRetryAfterDelay ==
    /\ attempt <= 2
    /\ \A k \in 1..Len(cmds) :
         (cmds[k].att = 1 /\ ~cmds[k].ok /\ (IsGcloud(cmds[k]) \/ IsInit(cmds[k])))
            => (attempt = 2 /\ clock >= sleepSeconds)

(***************************************************************************)
(* C3: the two phases have retry budgets of their own: with recognized     *)
(* actions only, the process ends fatally only after credential            *)
(* provisioning or init failed twice, or after the action loop failed      *)
(* twice; one failure of each kind is absorbed by the two retries.         *)
(***************************************************************************)
LoopFailed(a) == Returned(a) /\ InitOK(a) /\ errs[a] # Nil

AllRecognized == \A k \in 1..Len(p.Actions) : switchAction(p.Actions[k]) # "default"

C3_IndependentRetryBudgets ==
    (pc = "fatal" /\ AllRecognized) =>
        \/ Cardinality({a \in 1..Len(errs) : SetupFailed(a)}) >= 2
        \/ Cardinality({a \in 1..Len(errs) : LoopFailed(a)}) >= 2

(***************************************************************************)
(* C4: when setupProject or helmInit fails in both calls of Exec, the      *)
(* process ends with status 1 and no action handler has issued a command.  *)
(***************************************************************************)
C4_TwoSetupFailuresFatal ==
    (SetupFailed(1) /\ SetupFailed(2)) =>
        /\ pc = "fatal"
        /\ status = 1
        /\ \A k \in 1..Len(cmds) : ~IsHandlerCmd(cmds[k])

\* The init failed in the first call and a gcloud command in the second,
\* with actions declared.
C4_Witness ==
    /\ SetupFailed(1) /\ SetupFailed(2)
    /\ Len(p.Actions) >= 1
    /\ \E k \in 1..Len(cmds) : cmds[k].att = 1 /\ IsInit(cmds[k]) /\ ~cmds[k].ok
    /\ \E k \in 1..Len(cmds) : cmds[k].att = 2 /\ IsGcloud(cmds[k]) /\ ~cmds[k].ok

(***************************************************************************)
(* C5: every command of an action handler (package, copy, upgrade, dump)   *)
(* comes, within its own call of Exec, after activate-service-account,     *)
(* set project and get-credentials, run in that order and each successful, *)
(* followed by a successful helm init; nothing else precedes it but        *)
(* handler commands.                                                       *)
(***************************************************************************)
PreparedPrefix(a, s) ==
    /\ Len(s) > 4
    /\ \E f \in 1..Len(files) :
         /\ files[f].att = a
         /\ \A k \in 1..3 : s[k].argv = setupProjectCmds(p, files[f].name)[k] /\ s[k].ok
    /\ s[1].argv[3] = "activate-service-account"
    /\ s[2].argv[4] = "project"
    /\ s[3].argv[4] = "get-credentials"
    /\ s[4].argv = helmInitArgs /\ s[4].ok
    /\ \A k \in 5..Len(s) : IsHandlerCmd(s[k])

C5_HandlersAfterCredentials ==
    \A k \in 1..Len(cmds) :
        IsHandlerCmd(cmds[k]) => PreparedPrefix(cmds[k].att, AttemptCmds(cmds[k].att))

\* Handlers ran in the second call of Exec, after the first failed in setupProject.
C5_Witness ==
    /\ SetupFailed(1)
    /\ \E k \in 1..Len(cmds) : cmds[k].att = 2 /\ IsUpgrade(cmds[k])
    /\ \E k \in 1..Len(cmds) : cmds[k].att = 2 /\ IsDump(cmds[k])

(***************************************************************************)
(* C6: within one call of Exec the handlers are invoked in the declared    *)
(* order of p.Actions, each only after all earlier ones succeeded, and the *)
(* first failing command is the last command of that call.                 *)
(***************************************************************************)
C6_DeclaredOrder ==
    \A a \in 1..2 :
        LET h == Handled(a)
            s == AttemptCmds(a)
        IN  /\ Len(h) <= Len(p.Actions)
            /\ \A k \in 1..Len(h) : ActionOf(h[k]) = p.Actions[k]
            /\ \A k \in 1..(Len(h) - 1) : h[k].ok
            /\ \A k \in 1..(Len(s) - 1) : s[k].ok
            /\ \A k \in 1..Len(s) :
                 IsDump(s[k]) => Len(SelectSeq(SubSeq(s, 1, k - 1), EndsHandler)) < Len(p.Actions)
                                 /\ p.Actions[Len(SelectSeq(SubSeq(s, 1, k - 1), EndsHandler)) + 1] = deployPkg

\* Three different handlers ran in the first call, the third one failing.
C6_Witness ==
    /\ Len(Handled(1)) = 3
    /\ Handled(1)[1].ok /\ Handled(1)[2].ok /\ ~Handled(1)[3].ok
    /\ ActionOf(Handled(1)[1]) # ActionOf(Handled(1)[2])
    /\ ActionOf(Handled(1)[2]) # ActionOf(Handled(1)[3])
    /\ attempt = 2

(***************************************************************************)
(* C7: an unrecognized identifier at position k of p.Actions makes a call  *)
(* of Exec that reaches it return the unknown-action error: no handler of  *)
(* position k or later is invoked in any call, and the process never exits *)
(* with status 0.                                                          *)
(***************************************************************************)
C7_UnknownActionFails ==
    \A k \in 1..Len(p.Actions) :
        switchAction(p.Actions[k]) = "default" =>
            /\ \A a \in 1..2 : Len(Handled(a)) < k
            /\ \A a \in 1..Len(errs) :
                 /\ errs[a] # Nil
                 /\ (InitOK(a) /\ Len(Handled(a)) = k - 1 /\ \A m \in 1..(k - 1) : Handled(a)[m].ok)
                       => errs[a] = ErrUnknownAction
            /\ status # 0
            /\ Terminated => status = 1

\* The unrecognized identifier stands between two recognized ones and was
\* reached, after a successful handler, in both calls.
C7_Witness ==
    /\ Len(p.Actions) = 3
    /\ switchAction(p.Actions[1]) # "default"
    /\ switchAction(p.Actions[2]) = "default"
    /\ switchAction(p.Actions[3]) # "default"
    /\ errs = <<ErrUnknownAction, ErrUnknownAction>>
    /\ pc = "fatal"

(***************************************************************************)
(* C8: an unrecognized action identifier is not retried: once Exec has     *)
(* returned the unknown-action error the process is fatal at once, and no  *)
(* command runs afterwards.                                                *)
(***************************************************************************)
C8_UnknownActionNotRetried ==
    \A a \in 1..Len(errs) :
        errs[a] = ErrUnknownAction =>
            /\ pc = "fatal"
            /\ attempt = a
            /\ \A k \in 1..Len(cmds) : cmds[k].att <= a

(***************************************************************************)
(* The scenario chartPath=/charts/myapp, chartVersion=1.2.3,               *)
(* bucket=my-bucket, nothing else set, with the action list acts, in a run *)
(* where every external command and every file operation succeeds.         *)
(***************************************************************************)
ScenarioInput(acts) ==
    /\ input.ChartPath = ScenarioPath
    /\ input.ChartVersion = "1.2.3"
    /\ input.Bucket = "my-bucket"
    /\ input.Package = "" /\ input.Release = "" /\ input.Namespace = ""
    /\ input.Actions = acts

AllSucceeded ==
    /\ \A k \in 1..Len(cmds) : cmds[k].ok
    /\ \A a \in 1..Len(errs) : errs[a] # ErrIO

\* The commands that package, copy and upgrade, in the order they ran.
StageCmds == SelectSeq(cmds, LAMBDA c : IsPackage(c) \/ IsCopy(c) \/ IsUpgrade(c))

ScenarioOutcome(acts) ==
    (ScenarioInput(acts) /\ AllSucceeded /\ Terminated) =>
        /\ status = 0
        /\ Len(StageCmds) = 3
        /\ StageCmds[1].argv = <<helmBin, "package", "--version", "1.2.3", "/charts/myapp">>
        /\ StageCmds[2].argv = <<gsutilBin, "cp", "myapp-1.2.3.tgz", "gs://my-bucket">>
        /\ IsUpgrade(StageCmds[3])
        /\ StageCmds[3].argv[3] = "myapp"
        /\ StageCmds[3].argv[4] = "myapp-1.2.3.tgz"
        /\ StageCmds[3].argv[7] = "--install"
        /\ StageCmds[3].argv[8] = "--namespace"
        /\ StageCmds[3].argv[9] = "default"

ResolvedNamespace == IF input.Namespace = "" THEN "default" ELSE input.Namespace

C10_NamespaceOverrideOnce ==
    \A k \in 1..Len(cmds) :
        IsUpgrade(cmds[k]) =>
            /\ cmds[k].argv[5] = "--set"
            /\ cmds[k].argv[6] =
                   Join(input.Values \o <<"namespace=" \o ResolvedNamespace>>, ",")
            /\ (input.Values = <<>> /\ input.Namespace = "")
                   => cmds[k].argv[6] = "namespace=default"
            /\ (input.Values = <<"a=1", "b=2">> /\ input.Namespace = "")
                   => cmds[k].argv[6] = "a=1,b=2,namespace=default"
            /\ (input.Values = <<"k=v">> /\ input.Namespace = "ns")
                   => cmds[k].argv[6] = "k=v,namespace=ns"

\* Deploy ran twice in the first call of Exec and again in the second,
\* with a user-supplied override.
C10_Witness ==
    /\ input.Values # <<>>
    /\ Len(SelectSeq(AttemptCmds(1), IsUpgrade)) = 2
    /\ Len(SelectSeq(AttemptCmds(2), IsUpgrade)) >= 1

(***************************************************************************)
(* C11: the release argument of every upgrade command is the resolved      *)
(* release: RELEASE when it was set, the resolved package otherwise.       *)
(***************************************************************************)
ResolvedRelease == IF input.Release = "" THEN p.Package ELSE input.Release

C11_DeployUsesRelease ==
    \A k \in 1..Len(cmds) :
        IsUpgrade(cmds[k]) =>
            /\ p.Release = ResolvedRelease
            /\ cmds[k].argv[3] = p.Release

(***************************************************************************)
(* C12: after preparePlugin, a chart path containing "/" with PACKAGE      *)
(* unset gives the package its final "/"-separated segment; an unset       *)
(* RELEASE becomes the resolved package; PACKAGE and RELEASE that were set *)
(* are unchanged.                                                          *)
(***************************************************************************)
HasSlash(cp) == \E k \in 1..Len(cp) : cp[k] = "/"

\* The characters after the last "/" of a path that has one.
AfterLastSlash(cp) ==
    LET k == CHOOSE n \in 1..Len(cp) :
                 cp[n] = "/" /\ \A m \in (n + 1)..Len(cp) : cp[m] # "/"
    IN  Str([m \in 1..(Len(cp) - k) |-> cp[k + m]])

C12_ResolvedNames ==
    pc # "prepare" =>
        /\ (HasSlash(input.ChartPath) /\ input.Package = "")
               => p.Package = AfterLastSlash(input.ChartPath)
        /\ input.Release = "" => p.Release = p.Package
        /\ input.Package # "" => p.Package = input.Package
        /\ input.Release # "" => p.Release = input.Release
        /\ (input.ChartPath = <<"a", "/", "b">> /\ input.Package = "") => p.Package = "b"
        /\ (input.ChartPath = <<"/", "a", "/">> /\ input.Package = "") => p.Package = ""

\* A path of two segments was resolved with PACKAGE and RELEASE unset.
C12_Witness ==
    /\ pc # "prepare"
    /\ input.ChartPath = <<"a", "/", "b">>
    /\ input.Package = "" /\ input.Release = ""
    /\ p.Package = "b" /\ p.Release = "b"

(***************************************************************************)
(* C13: setupProject runs activate-service-account, set project and        *)
(* get-credentials in this order; after a failing one no further command   *)
(* of that call of Exec runs and the error is returned;                    *)
(* GOOGLE_APPLICATION_CREDENTIALS is set to the key file of a call only    *)
(* after all three of its commands succeeded.                              *)
(***************************************************************************)
GcloudCmds(a) == SelectSeq(AttemptCmds(a), IsGcloud)

C13_ProvisioningStopsAtFailure ==
    /\ env = "" \/ \E f \in 1..Len(files) : env = files[f].name
    /\ \A a \in 1..2 :
         LET g == GcloudCmds(a)
         IN  /\ Len(g) <= 3
             /\ Len(g) > 0 =>
                  \E f \in 1..Len(files) :
                      /\ files[f].att = a
                      /\ \A k \in 1..Len(g) : g[k].argv = setupProjectCmds(p, files[f].name)[k]
             /\ \A k \in 1..(Len(g) - 1) : g[k].ok
             /\ (Len(g) > 0 /\ ~g[Len(g)].ok) =>
                  /\ Returned(a) /\ errs[a] = ErrExit
                  /\ Len(AttemptCmds(a)) = Len(g)
             /\ \A f \in 1..Len(files) :
                  (files[f].att = a /\ env = files[f].name) => (Len(g) = 3 /\ g[3].ok)

\* set project failed in the first call; the second call provisioned and
\* set the variable.
C13_Witness ==
    /\ Len(GcloudCmds(1)) = 2 /\ ~GcloudCmds(1)[2].ok
    /\ Len(GcloudCmds(2)) = 3 /\ GcloudCmds(2)[3].ok
    /\ \E f \in 1..Len(files) : files[f].att = 2 /\ env = files[f].name

(***************************************************************************)
(* C14: in a debug run every upgrade command comes right after a           *)
(* successful `kubectl config view` of the same deploy; in a run without   *)
(* debug that command is never run.                                        *)
(***************************************************************************)
C14_DumpBeforeUpgrade ==
    /\ ~input.Debug => \A k \in 1..Len(cmds) : ~IsDump(cmds[k])
    /\ input.Debug =>
         \A k \in 1..Len(cmds) :
             IsUpgrade(cmds[k]) =>
                 /\ k > 1
                 /\ cmds[k - 1].argv = kubeConfigArgs
                 /\ cmds[k - 1].ok
                 /\ cmds[k - 1].att = cmds[k].att

\* A debug run with two deploys in its first call of Exec.
C14_Witness ==
    /\ input.Debug
    /\ Len(SelectSeq(AttemptCmds(1), IsUpgrade)) = 2
    /\ Len(SelectSeq(AttemptCmds(1), IsDump)) = 2

(***************************************************************************)
(* C15: a failing `kubectl config view` ends its call of Exec with an      *)
(* error and no upgrade command follows it in that call; a run without     *)
(* debug in which every command succeeds exits with status 0, so a debug   *)
(* run can fail where the same run without debug succeeds.                 *)
(***************************************************************************)
C15_FailedDumpFailsDeploy ==
    /\ \A k \in 1..Len(cmds) :
         (IsDump(cmds[k]) /\ ~cmds[k].ok) =>
             /\ Returned(cmds[k].att) /\ errs[cmds[k].att] = ErrExit
             /\ \A m \in (k + 1)..Len(cmds) : cmds[m].att # cmds[k].att
    /\ (~input.Debug /\ AllRecognized /\ AllSucceeded /\ Terminated) => status = 0

\* A debug run that is fatal although nothing but the dump ever failed.
C15_Witness ==
    /\ input.Debug
    /\ pc = "fatal"
    /\ AllRecognized
    /\ \A a \in 1..Len(errs) : errs[a] # ErrIO
    /\ \A k \in 1..Len(cmds) : ~cmds[k].ok => IsDump(cmds[k])
    /\ \E k \in 1..Len(cmds) : IsPackage(cmds[k])

(***************************************************************************)
(* C16: the second call of Exec starts from the beginning: its first       *)
(* command is activate-service-account, and its handlers start again at    *)
(* the first declared action, also for the actions that succeeded in the   *)
(* first call; a run that succeeds in its second call has run every        *)
(* declared action in that call.                                           *)
(***************************************************************************)
C16_RetryRestartsFromBeginning ==
    LET s == AttemptCmds(2)
        h == Handled(2)
    IN  /\ Len(s) > 0 =>
             /\ IsGcloud(s[1])
             /\ s[1].argv[3] = "activate-service-account"
        /\ \A k \in 1..Len(s) : IsHandlerCmd(s[k]) => PreparedPrefix(2, s)
        /\ \A k \in 1..Len(h) : k <= Len(p.Actions) /\ ActionOf(h[k]) = p.Actions[k]
        /\ (pc = "exit" /\ attempt = 2) => Completed(2)
        /\ (attempt = 2 /\ pc = "loop") => Len(h) = i - 1

\* create and push succeeded and deploy failed in the first call; the
\* second call ran create and push again.
C16_Witness ==
    /\ Len(Handled(1)) = 3
    /\ IsPackage(Handled(1)[1]) /\ Handled(1)[1].ok
    /\ IsCopy(Handled(1)[2]) /\ Handled(1)[2].ok
    /\ ~Handled(1)[3].ok
    /\ Len(Handled(2)) >= 2
    /\ IsPackage(Handled(2)[1]) /\ IsCopy(Handled(2)[2])

(***************************************************************************)
(* C17: every run ends, in the success exit or in the fatal exit, and no   *)
(* command position (each of the three gcloud commands, helm init, the     *)
(* command of each declared action, the dump of each declared deploy) is   *)
(* run more than once per call of Exec, so at most twice in a run.         *)
(* Termination is stated through a bounded measure that every step         *)
(* raises, and the absence of a state short of an exit where no step is    *)
(* possible: a run whose commands all return then reaches an exit.         *)
(***************************************************************************)
Deploys == {k \in 1..Len(p.Actions) : p.Actions[k] = deployPkg}

CommandCounts ==
    /\ attempt <= 2
    /\ \A k \in 1..Len(cmds) : cmds[k].att \in 1..2
    /\ \A a \in 1..2 :
         LET s == AttemptCmds(a)
         IN  /\ \A w \in {"auth", "config", "container"} :
                  Len(SelectSeq(s, LAMBDA c : IsGcloud(c) /\ c.argv[2] = w)) <= 1
             /\ Len(SelectSeq(s, IsInit)) <= 1
             /\ Len(SelectSeq(s, LAMBDA c : IsPackage(c) \/ IsCopy(c) \/ IsUpgrade(c)))
                    <= Len(p.Actions)
             /\ \A k \in 1..Len(Handled(a)) : ActionOf(Handled(a)[k]) = p.Actions[k]
             /\ Len(SelectSeq(s, IsDump)) <= Cardinality(Deploys)
             /\ Len(s) <= 4 + Len(p.Actions) + Cardinality(Deploys)
    /\ Len(cmds) <= 2 * (4 + Len(p.Actions) + Cardinality(Deploys))

\* The statements of one call of Exec still ahead, counted generously: two
\* per action, eight before the loop, one to return.
CallLength == 2 * Len(p.Actions) + 9

Rank ==
    CASE pc = "TempFile"    -> 0
      [] pc = "Write"       -> 1
      [] pc = "Close"       -> 2
      [] pc = "setup"       -> 2 + j
      [] pc = "Setenv"      -> 6
      [] pc = "helmInit"    -> 7
      [] pc = "loop"        -> 6 + 2 * i
      [] pc = "helmUpgrade" -> 7 + 2 * i
      [] OTHER              -> 0

\* How far the run is: it grows with every step and is at most 3 * CallLength.
Progress == IF Terminated THEN 3 * CallLength ELSE attempt * CallLength + Rank

\* A step of Exec, or of main after Exec has returned.
ExecStep ==
    \/ TempFile \/ Write \/ Close \/ SetupRun \/ Setenv \/ HelmInit
    \/ CreatePackage \/ PushPackage \/ DeployKubeConfig \/ DeployUpgrade
    \/ UnknownAction \/ LoopEnd

\* Short of an exit the process can take a step: before the first call of
\* Exec that step is preparePlugin, which has no loop and calls nothing
\* that waits.
CanStep == Terminated \/ pc = "prepare" \/ ENABLED ExecStep

C17_EveryRunTerminates ==
    /\ [](CommandCounts /\ Rank < CallLength /\ CanStep)
    /\ [][Progress' > Progress /\ CallLength' = CallLength]_vars

\* A fatal run of three actions that ran every command position twice.
C17_Witness ==
    /\ pc = "fatal"
    /\ Len(p.Actions) = 3
    /\ Len(AttemptCmds(1)) = 4 + Len(p.Actions) + Cardinality(Deploys)
    /\ Len(AttemptCmds(2)) = 4 + Len(p.Actions) + Cardinality(Deploys)
    /\ Cardinality(Deploys) >= 1
    /\ input.Debug

(***************************************************************************)
(* C18, as stated: every call of Exec that has returned created a key      *)
(* file that holds authKey, so a retried run leaves two such files.        *)
(* ioutil.TempFile and tmpfile.Write can fail: a call that fails there     *)
(* leaves no file, or a file without the key.                              *)
(***************************************************************************)
FileOf(a) == SelectSeq(files, LAMBDA f : f.att = a)

C18_EveryAttemptLeavesKeyFile ==
    \A a \in 1..Len(errs) :
        /\ Len(FileOf(a)) = 1
        /\ FileOf(a)[1].content = p.AuthKey

(***************************************************************************)
(* C18, amended: every call of Exec whose ioutil.TempFile succeeded        *)
(* created one new file, named unlike every other; the file holds authKey  *)
(* before the first gcloud command reads it; no step removes or renames a  *)
(* file or changes a written one; a run retried without a local I/O error  *)
(* ends with two files holding authKey; GOOGLE_APPLICATION_CREDENTIALS is  *)
(* unset until a provisioning succeeded and then names the file of the     *)
(* latest call whose three gcloud commands succeeded.                      *)
(***************************************************************************)
\* setupProject of call a has run its three commands and os.Setenv.
Provisioned(a) ==
    /\ Len(GcloudCmds(a)) = 3
    /\ GcloudCmds(a)[3].ok
    /\ ~(attempt = a /\ pc = "Setenv")

\* Call a is past a successful ioutil.TempFile.
Created(a) ==
    \/ attempt = a /\ pc \in {"Write", "Close", "setup", "Setenv", "helmInit",
                               "loop", "helmUpgrade"}
    \/ Len(AttemptCmds(a)) > 0
    \/ Returned(a) /\ errs[a] # ErrIO

KeyFiles ==
    /\ Len(files) <= 2
    /\ \A f, g \in 1..Len(files) :
         (files[f].name = files[g].name \/ files[f].att = files[g].att) => f = g
    /\ \A f \in 1..Len(files) : files[f].content \in {"", p.AuthKey}
    /\ \A a \in 1..2 :
         /\ Len(FileOf(a)) <= 1
         /\ Created(a) => Len(FileOf(a)) = 1
         /\ Len(FileOf(a)) = 1 => a <= attempt
         /\ Len(AttemptCmds(a)) > 0 =>
              /\ FileOf(a)[1].content = p.AuthKey
              /\ AttemptCmds(a)[1].argv = setupProjectCmds(p, FileOf(a)[1].name)[1]
    /\ (Terminated /\ Len(errs) = 2 /\ errs[1] # ErrIO /\ errs[2] # ErrIO) =>
         /\ Len(files) = 2
         /\ \A f \in 1..2 : files[f].content = p.AuthKey
    /\ IF \E a \in 1..2 : Provisioned(a)
       THEN LET last == CHOOSE a \in 1..2 :
                            /\ Provisioned(a)
                            /\ \A b \in 1..2 : Provisioned(b) => b <= a
            IN  env = FileOf(last)[1].name
       ELSE env = ""

FilesOnlyGrow ==
    /\ Len(files') >= Len(files)
    /\ \A f \in 1..Len(files) :
         /\ files'[f].name = files[f].name
         /\ files'[f].att = files[f].att
         /\ files[f].content # "" => files'[f].content = files[f].content

C18_KeyFilesKept == []KeyFiles /\ [][FilesOnlyGrow]_vars

\* The first call failed at a gcloud command; the second provisioned: two
\* files are left and the variable names the second.
C18_Witness ==
    /\ Terminated
    /\ Len(files) = 2
    /\ \A f \in 1..2 : files[f].content = p.AuthKey
    /\ ~Provisioned(1) /\ Len(GcloudCmds(1)) > 0
    /\ Provisioned(2)
    /\ env = files[2].name

====
